---- MODULE Spec2Model ----
(***************************************************************************)
(* Model of programs/signal-attestation/src/lib.rs: the record_signal      *)
(* instruction of the signal_attestation program and the account           *)
(* validation its RecordSignal accounts struct declares (Signer, init,     *)
(* seeds, bump).  A transaction is executed atomically by the runtime;     *)
(* two clients may have transactions in flight at the same time and the    *)
(* runtime executes them in either order.                                  *)
(***************************************************************************)
EXTENDS Integers, FiniteSets, Sequences, TLC

\* ---------------------------------------------------------------- bounds
\* largest bump seed tried by the address search (u8::MAX in the runtime)
MaxBump == 3
\* number of transactions submitted in one behaviour
MaxCalls == 2

\* ---------------------------------------------------------------- inputs
Clients == {1, 2}
\* public keys of the wallets that may appear as `authority`
Authorities == {1, 2}
\* 32-byte digests, abstracted to small integers
Digests == {1, 2}
\* (authority key, did it sign) for the authority account of a transaction
AuthorityAccounts == { <<1, TRUE>>, <<2, TRUE>>, <<1, FALSE>> }
\* (signal_hash, market_id_hash, classification, confidence_bps, timestamp)
\* payloads a caller may send; the hashes are [u8; 32], classification is
\* a u8, confidence_bps a u16, timestamp an i64
Payloads == { <<1, 1, 2, 8200, 1700000000>>, <<2, 2, 5, 10000, 0>>,
              <<1, 2, 6, 7500, -1>>, <<2, 1, 0, 10001, 1700000000>> }

\* ------------------------------------------------------------- data model
\* enum Classification: the discriminants 0..5
ClassificationCodes == 0 .. 5

\* struct SignalAttestation, with `allocated` standing for the account
\* being owned by the program with its discriminator written
EmptyAccount ==
    [ allocated |-> FALSE, signal_hash |-> 0, market_id_hash |-> 0,
      classification |-> 0, confidence_bps |-> 0, timestamp |-> 0,
      authority |-> 0, bump |-> 0 ]

\* ------------------------------------------------------ address derivation
\* hash of the seeds b"attestation", authority, movement_id_hash and the
\* bump, in that order; injective, as a collision-free digest
SeedsHash(authority, subject, bump) ==
    ((authority * (Cardinality(Digests) + 1)) + subject) * (MaxBump + 1) + bump

\* whether a digest is a point of the curve (such a digest is no valid PDA)
OnCurve(h) == h % 7 \in {0, 3, 5}

\* create_program_address: the address for the seeds and a given bump
CreateProgramAddress(authority, subject, bump) ==
    IF OnCurve(SeedsHash(authority, subject, bump))
    THEN [ok |-> FALSE, address |-> 0, bump |-> bump]
    ELSE [ok |-> TRUE, address |-> SeedsHash(authority, subject, bump),
          bump |-> bump]

RECURSIVE SearchBump(_, _, _)
SearchBump(authority, subject, bump) ==
    IF bump < 0 THEN [ok |-> FALSE, address |-> 0, bump |-> 0]
    ELSE IF CreateProgramAddress(authority, subject, bump).ok
         THEN CreateProgramAddress(authority, subject, bump)
         ELSE SearchBump(authority, subject, bump - 1)

\* find_program_address: the canonical (highest valid) bump and its address
FindProgramAddress(authority, subject) ==
    SearchBump(authority, subject, MaxBump)

Addresses ==
    { SeedsHash(a, h, b) : a \in Authorities, h \in Digests, b \in 0 .. MaxBump }

\* ----------------------------------------------------------- transactions
\* the attestation account a client passes: the PDA of its own seeds, or
\* the PDA of another authority for the same subject
Targets(authority, subject) ==
    { FindProgramAddress(a, subject).address : a \in Authorities }

Transactions ==
    { [ attestation |-> x[4], authority |-> x[1][1], is_signer |-> x[1][2],
        params |-> [ signal_hash |-> x[3][1], market_id_hash |-> x[3][2],
                     movement_id_hash |-> x[2], classification |-> x[3][3],
                     confidence_bps |-> x[3][4], timestamp |-> x[3][5] ] ] :
      x \in { y \in AuthorityAccounts \X Digests \X Payloads \X Addresses :
                 y[4] \in Targets(y[1][1], y[2]) } }

NoTx ==
    [ attestation |-> 0, authority |-> 0, is_signer |-> FALSE,
      params |-> [ signal_hash |-> 0, market_id_hash |-> 0,
                   movement_id_hash |-> 0, classification |-> 0,
                   confidence_bps |-> 0, timestamp |-> 0 ] ]

IdleSlot ==
    [ status |-> "idle", tx |-> NoTx, result |-> "none",
      overlap |-> FALSE, freeAtSubmit |-> FALSE, freeAtExec |-> FALSE,
      firstForPair |-> FALSE ]

VARIABLES
    store,      \* account data at every address
    slot,       \* per client: the transaction in flight or last executed
    ncalls,     \* transactions submitted so far
    createdBy,  \* history: the transaction that allocated each address
    firstWrite, \* history: per (authority, subject), what its first call carried
    called      \* history: (authority, subject) pairs with an executed signed call

vars == <<store, slot, ncalls, createdBy, firstWrite, called>>

\* -------------------------------------------------------------- the handler
\* record_signal with the bump assignment left out
record_signal_NoBump(account, tx, bump) ==
    [ account EXCEPT
        !.signal_hash = tx.params.signal_hash,
        !.market_id_hash = tx.params.market_id_hash,
        !.classification = tx.params.classification,
        !.confidence_bps = tx.params.confidence_bps,
        !.timestamp = tx.params.timestamp,
        !.authority = tx.authority ]

\* record_signal storing the derivation hash in place of market_id_hash
record_signal_StoresMovement(account, tx, bump) ==
    [ account EXCEPT
        !.signal_hash = tx.params.signal_hash,
        !.market_id_hash = tx.params.movement_id_hash,
        !.classification = tx.params.classification,
        !.confidence_bps = tx.params.confidence_bps,
        !.timestamp = tx.params.timestamp,
        !.authority = tx.authority,
        !.bump = bump ]

\* record_signal: the body of the instruction handler; `account` is the
\* freshly allocated attestation account, `bump` is ctx.bumps.attestation
record_signal(account, tx, bump) ==
    [ account EXCEPT
        !.signal_hash = tx.params.signal_hash,
        !.market_id_hash = tx.params.market_id_hash,
        !.classification = tx.params.classification,
        !.confidence_bps = tx.params.confidence_bps,
        !.timestamp = tx.params.timestamp,
        !.authority = tx.authority,
        !.bump = bump ]

\* the authority declared as a plain account: no signature required
SignerCheck_Unchecked(tx) == TRUE

\* Signer<'info>: the authority account must have signed the transaction
SignerCheck(tx) == tx.is_signer

\* seeds = [b"attestation", authority.key(), &params.movement_id_hash], bump
SeedsOf(tx) == FindProgramAddress(tx.authority, tx.params.movement_id_hash)

\* seeds constraint: the account passed must be the derived address
SeedsCheck(tx) == SeedsOf(tx).ok /\ SeedsOf(tx).address = tx.attestation

\* init_if_needed: an account already in use is accepted
InitCheck_IfNeeded(st, tx) == TRUE

\* init: allocation fails when the address is already in use
InitCheck(st, tx) == ~ st[tx.attestation].allocated

\* outcome of the account validation followed by the handler
Outcome(st, tx) ==
    IF ~ SignerCheck(tx) THEN "Unauthorized"
    ELSE IF ~ SeedsCheck(tx) THEN "InvalidDerivation"
    ELSE IF ~ InitCheck(st, tx) THEN "AlreadyExists"
    ELSE "Ok"

\* the handler's first write lands although the allocation was refused
Apply_WritesBeforeCheck(st, tx) ==
    IF Outcome(st, tx) = "Ok"
    THEN [ st EXCEPT ![tx.attestation] =
             record_signal([EmptyAccount EXCEPT !.allocated = TRUE], tx,
                           SeedsOf(tx).bump) ]
    ELSE IF Outcome(st, tx) = "AlreadyExists"
    THEN [ st EXCEPT ![tx.attestation].signal_hash = tx.params.signal_hash ]
    ELSE st

\* the allocation is kept although a later check refused the transaction
Apply_NoRollback(st, tx) ==
    IF Outcome(st, tx) = "Ok"
    THEN [ st EXCEPT ![tx.attestation] =
             record_signal([EmptyAccount EXCEPT !.allocated = TRUE], tx,
                           SeedsOf(tx).bump) ]
    ELSE IF ~ st[tx.attestation].allocated
    THEN [ st EXCEPT ![tx.attestation].allocated = TRUE ]
    ELSE st

\* the store after the transaction: one allocation plus the handler's
\* writes on success, nothing on failure
Apply(st, tx) ==
    IF Outcome(st, tx) = "Ok"
    THEN [ st EXCEPT ![tx.attestation] =
             record_signal([EmptyAccount EXCEPT !.allocated = TRUE], tx,
                           SeedsOf(tx).bump) ]
    ELSE st

\* ------------------------------------------------------------------ history
Pairs == Authorities \X Digests

PairOf(tx) == <<tx.authority, tx.params.movement_id_hash>>

\* a call "signed by A with subject H": A signed and the account passed is
\* the address of (A, H)
WellFormed(tx) ==
    /\ tx.is_signer
    /\ FindProgramAddress(tx.authority, tx.params.movement_id_hash).ok
    /\ tx.attestation =
         FindProgramAddress(tx.authority, tx.params.movement_id_hash).address

\* the record a call carries, read off the transaction alone
Carried(tx) ==
    [ allocated |-> TRUE,
      signal_hash |-> tx.params.signal_hash,
      market_id_hash |-> tx.params.market_id_hash,
      classification |-> tx.params.classification,
      confidence_bps |-> tx.params.confidence_bps,
      timestamp |-> tx.params.timestamp,
      authority |-> tx.authority,
      bump |-> FindProgramAddress(tx.authority,
                                  tx.params.movement_id_hash).bump ]

\* ------------------------------------------------------------------ actions
Init ==
    /\ store = [a \in Addresses |-> EmptyAccount]
    /\ slot = [c \in Clients |-> IdleSlot]
    /\ ncalls = 0
    /\ createdBy = [a \in Addresses |-> NoTx]
    /\ firstWrite = [p \in Pairs |-> EmptyAccount]
    /\ called = {}

\* a client sends a transaction
Submit(c, tx) ==
    /\ slot[c].status # "submitted"
    /\ ncalls < MaxCalls
    /\ ncalls' = ncalls + 1
    /\ slot' = [ d \in Clients |->
                 IF d = c
                 THEN [ status |-> "submitted", tx |-> tx, result |-> "none",
                        overlap |-> \E e \in Clients \ {c} :
                                       slot[e].status = "submitted",
                        freeAtSubmit |-> ~ store[tx.attestation].allocated,
                        freeAtExec |-> FALSE, firstForPair |-> FALSE ]
                 ELSE IF slot[d].status = "submitted"
                      THEN [slot[d] EXCEPT !.overlap = TRUE]
                      ELSE slot[d] ]
    /\ UNCHANGED <<store, createdBy, firstWrite, called>>

\* the runtime executes a client's transaction
Execute(c) ==
    /\ slot[c].status = "submitted"
    /\ LET tx == slot[c].tx IN
       /\ store' = Apply(store, tx)
       /\ slot' = [ slot EXCEPT ![c] =
                      [ @ EXCEPT !.status = "done",
                                 !.result = Outcome(store, tx),
                                 !.freeAtExec = ~ store[tx.attestation].allocated,
                                 !.firstForPair = WellFormed(tx)
                                                  /\ PairOf(tx) \notin called ] ]
       /\ createdBy' = IF store'[tx.attestation] # store[tx.attestation]
                       THEN [createdBy EXCEPT ![tx.attestation] = tx]
                       ELSE createdBy
       /\ firstWrite' = IF WellFormed(tx) /\ PairOf(tx) \notin called
                        THEN [firstWrite EXCEPT ![PairOf(tx)] = Carried(tx)]
                        ELSE firstWrite
       /\ called' = IF WellFormed(tx) THEN called \cup {PairOf(tx)} ELSE called
    /\ UNCHANGED ncalls

Next ==
    \/ \E c \in Clients, tx \in Transactions : Submit(c, tx)
    \/ \E c \in Clients : Execute(c)

Spec == Init /\ [][Next]_vars

TypeOK ==
    /\ ncalls \in 0 .. MaxCalls
    /\ \A c \in Clients : slot[c].status \in {"idle", "submitted", "done"}

\* ------------------------------------------------------------------ helpers
Done(c) == slot[c].status = "done"

AddressOf(p) == FindProgramAddress(p[1], p[2]).address

\* the number of addresses at which two stores differ
Changed(st1, st2) == { a \in Addresses : st1[a] # st2[a] }

\* ------------------------------------------------------------------- claims

\* C1: for every authority A and derivation subject H, the first call signed
\* by A with subject H succeeds, every later one fails with AlreadyExists
\* whatever payload it carries, and the record stored at the address of
\* (A, H) is the one the first call wrote.
C1_FirstWriteWins ==
    /\ \A p \in called : store[AddressOf(p)] = firstWrite[p]
    /\ \A c \in Clients :
         Done(c) /\ WellFormed(slot[c].tx) =>
           slot[c].result = IF slot[c].firstForPair THEN "Ok"
                            ELSE "AlreadyExists"

C1_Witness ==
    \E c \in Clients :
      /\ Done(c) /\ WellFormed(slot[c].tx) /\ ~ slot[c].firstForPair
      /\ slot[c].result = "AlreadyExists"
      /\ Carried(slot[c].tx) # store[slot[c].tx.attestation]
      /\ store[slot[c].tx.attestation] = firstWrite[PairOf(slot[c].tx)]

\* C2: the authority of every stored record is the identity that signed the
\* call which created it, that identity is the one its address derives
\* from, and a call whose authority did not sign creates no record.
C2_AuthorityIsSigner ==
    /\ \A a \in Addresses :
         store[a].allocated =>
           /\ createdBy[a].is_signer
           /\ store[a].authority = createdBy[a].authority
           /\ a = FindProgramAddress(createdBy[a].authority,
                     createdBy[a].params.movement_id_hash).address
    /\ \A c \in Clients :
         Done(c) /\ ~ slot[c].tx.is_signer =>
           /\ slot[c].result = "Unauthorized"
           /\ createdBy[slot[c].tx.attestation] # slot[c].tx

C2_Witness ==
    /\ \E a \in Addresses :
         store[a].allocated /\ store[a].authority = createdBy[a].authority
    /\ \E c \in Clients :
         /\ Done(c) /\ ~ slot[c].tx.is_signer
         /\ ~ store[slot[c].tx.attestation].allocated

\* C3: a call to an unoccupied address succeeds, and the stored signal_hash,
\* market_id_hash (the record's subject hash), classification,
\* confidence_bps and timestamp equal the input fields, the authority equals
\* the signer and the bump equals the one address derivation produced.
C3_FieldsVerbatim ==
    \A c \in Clients :
      Done(c) /\ WellFormed(slot[c].tx) /\ slot[c].freeAtExec =>
        LET tx == slot[c].tx
            r == store[tx.attestation] IN
        /\ slot[c].result = "Ok"
        /\ r.allocated
        /\ r.signal_hash = tx.params.signal_hash
        /\ r.market_id_hash = tx.params.market_id_hash
        /\ r.classification = tx.params.classification
        /\ r.confidence_bps = tx.params.confidence_bps
        /\ r.timestamp = tx.params.timestamp
        /\ r.authority = tx.authority
        /\ r.bump = FindProgramAddress(tx.authority,
                                       tx.params.movement_id_hash).bump

C3_Witness ==
    \E c \in Clients :
      /\ Done(c) /\ WellFormed(slot[c].tx) /\ slot[c].freeAtExec
      /\ slot[c].result = "Ok"
      /\ slot[c].tx.params.market_id_hash # slot[c].tx.params.movement_id_hash
      /\ slot[c].tx.params.signal_hash # slot[c].tx.params.market_id_hash
      /\ slot[c].tx.params.timestamp < 0

\* C4: the subject hash stored in a record is the hash its address was
\* derived from: every record r at address a satisfies
\* a = derive("attestation", r.authority, r.subject_hash), so at most one
\* record exists per (authority, stored subject hash).
C4_StoredSubjectDerivesAddress ==
    /\ \A a \in Addresses :
         store[a].allocated =>
           a = FindProgramAddress(store[a].authority,
                                  store[a].market_id_hash).address
    /\ \A a, b \in Addresses :
         /\ store[a].allocated /\ store[b].allocated
         /\ store[a].authority = store[b].authority
         /\ store[a].market_id_hash = store[b].market_id_hash
         => a = b

\* C5: of two submissions in flight together for the same address, never
\* both succeed; when both are signed for that address and found it free
\* on submission, exactly one succeeds and the other fails with
\* AlreadyExists, and the stored record is the winner's, whole.
C5_ConcurrentOneWinner ==
    \A c, d \in Clients :
      /\ c # d /\ Done(c) /\ Done(d)
      /\ slot[c].overlap /\ slot[d].overlap
      /\ slot[c].tx.attestation = slot[d].tx.attestation
      =>
      /\ ~ (slot[c].result = "Ok" /\ slot[d].result = "Ok")
      /\ slot[c].result = "Ok" =>
           store[slot[c].tx.attestation] = Carried(slot[c].tx)
      /\ ( /\ WellFormed(slot[c].tx) /\ WellFormed(slot[d].tx)
           /\ slot[c].freeAtSubmit /\ slot[d].freeAtSubmit )
         => \/ slot[c].result = "Ok" /\ slot[d].result = "AlreadyExists"
            \/ slot[d].result = "Ok" /\ slot[c].result = "AlreadyExists"

C5_Witness ==
    \E c, d \in Clients :
      /\ c # d /\ Done(c) /\ Done(d)
      /\ slot[c].overlap /\ slot[d].overlap
      /\ slot[c].tx.attestation = slot[d].tx.attestation
      /\ WellFormed(slot[c].tx) /\ WellFormed(slot[d].tx)
      /\ slot[c].freeAtSubmit /\ slot[d].freeAtSubmit
      /\ slot[c].result = "Ok" /\ slot[d].result = "AlreadyExists"
      /\ Carried(slot[c].tx) # Carried(slot[d].tx)
      /\ store[slot[c].tx.attestation] = Carried(slot[c].tx)

\* C6: a failing call leaves the whole store unchanged, and every address
\* holds either no record or one record with all seven fields written by
\* the call that created it.
C6_FailureLeavesStore ==
    [][ /\ \A c \in Clients :
             /\ slot[c].status = "submitted" /\ slot'[c].status = "done"
             /\ slot'[c].result # "Ok"
             => store' = store
        /\ \A a \in Addresses :
             \/ store'[a] = EmptyAccount
             \/ store'[a].allocated /\ store'[a] = Carried(createdBy'[a]) ]_vars

C6_Witness ==
    \E c, d \in Clients :
      /\ Done(c) /\ Done(d)
      /\ slot[c].result = "Ok"
      /\ slot[d].result \in {"Unauthorized", "InvalidDerivation"}
      /\ slot[d].tx.attestation = slot[c].tx.attestation
      /\ store[slot[c].tx.attestation] = Carried(slot[c].tx)

\* C7: a call whose classification byte is 6 or more is rejected and
\* creates no record, so every stored classification is one of 0..5.
C7_ClassificationInRange ==
    /\ \A a \in Addresses :
         store[a].allocated => store[a].classification \in ClassificationCodes
    /\ \A c \in Clients :
         Done(c) /\ slot[c].tx.params.classification \notin ClassificationCodes
           => slot[c].result # "Ok"

\* C8: a call whose confidence_bps is above 10000 is rejected and creates
\* no record, so every stored confidence_bps is at most 10000.
C8_ConfidenceInRange ==
    /\ \A a \in Addresses :
         store[a].allocated => store[a].confidence_bps \in 0 .. 10000
    /\ \A c \in Clients :
         Done(c) /\ slot[c].tx.params.confidence_bps \notin 0 .. 10000
           => slot[c].result # "Ok"

\* C9: re-deriving the address from the tag, the authority, the subject
\* hash of the creating call and the bump stored in the record yields the
\* address at which the record was allocated.
C9_RederiveWithStoredBump ==
    \A a \in Addresses :
      store[a].allocated =>
        LET d == CreateProgramAddress(createdBy[a].authority,
                                      createdBy[a].params.movement_id_hash,
                                      store[a].bump) IN
        d.ok /\ d.address = a

C9_Witness ==
    \E a, b \in Addresses :
      /\ store[a].allocated /\ store[b].allocated
      /\ store[a].bump # store[b].bump
      /\ CreateProgramAddress(createdBy[a].authority,
                              createdBy[a].params.movement_id_hash,
                              store[a].bump).address = a

\* C10: an occupied address stays occupied with its record unchanged
\* whatever call follows, and a successful call changes only the storage at
\* its own derived address.
C10_OccupiedIsTerminal ==
    [][ /\ \A a \in Addresses : store[a].allocated => store'[a] = store[a]
        /\ store' # store =>
             \E c \in Clients :
               /\ slot[c].status = "submitted" /\ slot'[c].status = "done"
               /\ slot'[c].result = "Ok"
               /\ Changed(store, store') = {slot[c].tx.attestation}
               /\ slot[c].tx.attestation =
                    FindProgramAddress(slot[c].tx.authority,
                        slot[c].tx.params.movement_id_hash).address ]_vars

C10_Witness ==
    \E c, d \in Clients :
      /\ c # d /\ Done(c) /\ Done(d)
      /\ slot[c].result = "Ok" /\ slot[d].result = "Ok"
      /\ slot[c].tx.attestation # slot[d].tx.attestation
      /\ store[slot[c].tx.attestation] = Carried(slot[c].tx)
      /\ store[slot[d].tx.attestation] = Carried(slot[d].tx)
====
